---------------------------- MODULE Spec2Model ----------------------------
(***************************************************************************)
(* Model of the two self-contained algorithms of lanl-ansi/bqpsolvers:     *)
(*   - src/ils_bit.py     steepest-descent bit-flip local search           *)
(*   - src/cmip_gurobi.py union-find contraction of an Ising model and its *)
(*                        spin -> boolean conversion                       *)
(* Coefficients are Python floats in the source; every coefficient used    *)
(* here is a small integer, on which float arithmetic is exact.            *)
(***************************************************************************)
EXTENDS Integers, Sequences, FiniteSets, TLC

VARIABLES
    data,            \* the input document (json.load)
    args,            \* the parsed command line
    pc,              \* position of main
    error,           \* name of the exception that ended main, "" if none
    model,           \* ils_bit: Model namedtuple returned by load_model
    assignment,      \* ils_bit: the current assignment
    objective,       \* ils_bit: the running raw objective
    iterations,      \* ils_bit: counter, starts at 1
    restarts,        \* ils_bit: counter
    best_objective,  \* ils_bit: a float, math.inf at first
    clock,           \* ils_bit: time.process_time() - start_time, in ticks
    end_time,        \* ils_bit: end_time - start_time, in ticks
    result,          \* ils_bit: what the last step() returned
    held_min,        \* history: least evaluate() of the assignments main has held
    steps_none,      \* history: the calls of step() that returned None
    steps_moved,     \* history: the calls of step() that returned a delta
    descent_moves,   \* history: the moves made since the last (re)start
    report,          \* ils_bit: the values of the final BQP_DATA line
    ising,           \* cmip_gurobi: the Ising object
    uf,              \* cmip_gurobi: UnionFind._parent
    groups,          \* cmip_gurobi: dict root -> list of members
    group_of_var,    \* cmip_gurobi: dict variable -> root
    cursor,          \* cmip_gurobi: passes made of the current for loop
    converted,       \* cmip_gurobi: what to_boolean_domain returned
    round,           \* which contraction this is: 1, or 2 for a repeated one
    first            \* history: the Ising object after the first contraction

ils_vars == <<model, assignment, objective, iterations, restarts,
              best_objective, clock, end_time, result, held_min, steps_none,
              steps_moved, descent_moves, report>>

cmip_vars == <<ising, uf, groups, group_of_var, cursor, converted, round, first>>

vars == <<data, args, pc, error, ils_vars, cmip_vars>>

----------------------------------------------------------------------------
(* Bounds of the model *)

\* boolean documents of ils_bit have the variable ids 0 .. n-1, n <= MaxBoolVars
MaxBoolVars == 2
\* the runtime limit, in ticks; one pass of the main loop takes one tick
MaxTime == 3

\* spin documents of cmip_gurobi have the variable ids 0 .. n-1, n <= MaxSpinVars
MaxSpinVars == 3

\* coefficients of the linear and quadratic terms of the boolean documents
LinVals == {-1, 1}
QuadVals == {-1, 1, 2}
\* coefficients of the spin documents, and the values of --chain_strength
SpinLinVals == {1}
SpinQuadVals == {-2, -1, 1}
ChainStrengths == {1, 2}

----------------------------------------------------------------------------
(* Python values *)

\* a float that may be math.inf
Inf == [inf |-> TRUE, val |-> 0]
Fin(x) == [inf |-> FALSE, val |-> x]
\* a < b on floats, b possibly math.inf, a finite
LtFloat(a, b) == b.inf \/ a < b.val

Abs(x) == IF x < 0 THEN -x ELSE x
Min(x, y) == IF x < y THEN x ELSE y

\* a dict is the sequence of its <<key, value>> items in insertion order
DictHas(d, k) == \E n \in 1..Len(d) : d[n][1] = k
DictGet(d, k, dflt) ==
    IF DictHas(d, k) THEN d[CHOOSE n \in 1..Len(d) : d[n][1] = k][2] ELSE dflt
\* d[k] = v: an existing key keeps its place, a new key goes last
DictSet(d, k, v) ==
    IF DictHas(d, k)
    THEN [n \in 1..Len(d) |-> IF d[n][1] = k THEN <<k, v>> ELSE d[n]]
    ELSE Append(d, <<k, v>>)

\* max(variables) of a non-empty sequence
MaxOf(s) == CHOOSE m \in {s[n] : n \in 1..Len(s)} :
                \A n \in 1..Len(s) : s[n] <= m

----------------------------------------------------------------------------
(* src/ils_bit.py *)

\* {lt['id']: lt['coeff'] for lt in data['linear_terms']}
RECURSIVE linear_dict(_, _)
linear_dict(terms, k) ==
    IF k = 0 THEN <<>>
    ELSE DictSet(linear_dict(terms, k - 1), terms[k].id, terms[k].coeff)

\* {(qt['id_tail'], qt['id_head']): qt['coeff'] for qt in data['quadratic_terms']}
RECURSIVE quadratic_dict(_, _)
quadratic_dict(terms, k) ==
    IF k = 0 THEN <<>>
    ELSE DictSet(quadratic_dict(terms, k - 1),
                 <<terms[k].id_tail, terms[k].id_head>>, terms[k].coeff)

\* adjacent after the first k quadratic terms; an entry is None or a list
RECURSIVE adjacent_list(_, _, _)
adjacent_list(terms, k, size) ==
    IF k = 0 THEN [v \in 0..(size - 1) |-> [none |-> TRUE, items |-> <<>>]]
    ELSE LET a == adjacent_list(terms, k - 1, size)
             i == terms[k].id_tail
             j == terms[k].id_head
             c == terms[k].coeff
             a1 == [a EXCEPT ![i] = [none |-> FALSE,
                                     items |-> Append(a[i].items, <<j, c>>)]]
         IN  [a1 EXCEPT ![j] = [none |-> FALSE,
                                items |-> Append(a1[j].items, <<i, c>>)]]

\* load_model(data), for a document with at least one variable
load_model(d) ==
    LET variables == d.variable_ids
        linear == linear_dict(d.linear_terms, Len(d.linear_terms))
        size == MaxOf(variables) + 1
    IN  [variables |-> variables,
         linear |-> linear,
         quadratic |-> quadratic_dict(d.quadratic_terms, Len(d.quadratic_terms)),
         linear_list |-> [v \in 0..(size - 1) |-> DictGet(linear, v, 0)],
         adjacent |-> adjacent_list(d.quadratic_terms, Len(d.quadratic_terms), size)]

\* the assignments of a model: one value per index 0 .. max(variables)
Assignments(m) == [0..MaxOf(m.variables) -> {0, 1}]

make_random_assignemnt(m) == Assignments(m)
\* a generator that may return a different assignment at each call
make_varying_assignemnt(m) == Assignments(m)
make_all_ones_assignemnt(m) == {[v \in 0..MaxOf(m.variables) |-> 1]}
make_all_zeros_assignemnt(m) == {[v \in 0..MaxOf(m.variables) |-> 0]}

\* the assignments make_restart_assignment can return
make_restart_assignment(m, ia) ==
    IF ia = "ran" THEN make_random_assignemnt(m)
    ELSE IF ia = "ones" THEN make_all_ones_assignemnt(m)
    ELSE make_all_zeros_assignemnt(m)

RECURSIVE evaluate_linear(_, _, _)
evaluate_linear(linear, a, k) ==
    IF k = 0 THEN 0
    ELSE evaluate_linear(linear, a, k - 1) + linear[k][2] * a[linear[k][1]]

RECURSIVE evaluate_quadratic(_, _, _)
evaluate_quadratic(quadratic, a, k) ==
    IF k = 0 THEN 0
    ELSE evaluate_quadratic(quadratic, a, k - 1)
         + quadratic[k][2] * a[quadratic[k][1][1]] * a[quadratic[k][1][2]]

evaluate(m, a) ==
    evaluate_linear(m.linear, a, Len(m.linear))
    + evaluate_quadratic(m.quadratic, a, Len(m.quadratic))

flip(a, variable) == [a EXCEPT ![variable] = 1 - a[variable]]

RECURSIVE flip_delta_sum(_, _, _, _)
flip_delta_sum(items, a, difference, k) ==
    IF k = 0 THEN 0
    ELSE flip_delta_sum(items, a, difference, k - 1)
         + items[k][2] * a[items[k][1]] * difference

\* flip_delta without the linear term
flip_delta_no_linear(m, a, variable) ==
    LET difference == 1 - 2 * a[variable]
        adj == m.adjacent[variable]
    IN  IF adj.none
        THEN [exc |-> "TypeError", val |-> 0]
        ELSE [exc |-> "",
              val |-> flip_delta_sum(adj.items, a, difference, Len(adj.items))]

\* flip_delta(model, assignment, variable): iterating over None raises TypeError
flip_delta(m, a, variable) ==
    LET difference == 1 - 2 * a[variable]
        adj == m.adjacent[variable]
    IN  IF adj.none
        THEN [exc |-> "TypeError", val |-> 0]
        ELSE [exc |-> "",
              val |-> m.linear_list[variable] * difference
                      + flip_delta_sum(adj.items, a, difference, Len(adj.items))]

\* the for loop of step with delta <= best_delta: the last of equal deltas wins
RECURSIVE step_scan_last_of_equal(_, _, _)
step_scan_last_of_equal(m, a, k) ==
    IF k = 0 THEN [exc |-> "", best_var |-> <<>>, best_delta |-> Inf]
    ELSE LET before == step_scan_last_of_equal(m, a, k - 1)
             var == m.variables[k]
             delta == flip_delta(m, a, var)
         IN  IF before.exc # "" THEN before
             ELSE IF delta.exc # "" THEN [before EXCEPT !.exc = delta.exc]
             ELSE IF before.best_delta.inf \/ delta.val <= before.best_delta.val
                  THEN [exc |-> "", best_var |-> <<var>>,
                        best_delta |-> Fin(delta.val)]
                  ELSE before

\* the for loop of step over the first k variables: best_var is <<>> for None
RECURSIVE step_scan(_, _, _)
step_scan(m, a, k) ==
    IF k = 0 THEN [exc |-> "", best_var |-> <<>>, best_delta |-> Inf]
    ELSE LET before == step_scan(m, a, k - 1)
             var == m.variables[k]
             delta == flip_delta(m, a, var)
         IN  IF before.exc # "" THEN before
             ELSE IF delta.exc # "" THEN [before EXCEPT !.exc = delta.exc]
             ELSE IF LtFloat(delta.val, before.best_delta)
                  THEN [exc |-> "", best_var |-> <<var>>,
                        best_delta |-> Fin(delta.val)]
                  ELSE before

\* step that returns None only when best_delta > 0: it also moves on delta 0
step_moves_on_zero(m, a, obj) ==
    LET scan == step_scan(m, a, Len(m.variables))
    IN  IF scan.exc # ""
        THEN [exc |-> scan.exc, none |-> FALSE, delta |-> 0, assignment |-> a]
        ELSE IF scan.best_delta.inf \/ scan.best_delta.val > 0
        THEN [exc |-> "", none |-> TRUE, delta |-> 0, assignment |-> a]
        ELSE [exc |-> "", none |-> FALSE, delta |-> scan.best_delta.val,
              assignment |-> flip(a, scan.best_var[1])]

\* step that returns the delta of the best move without applying the flip
step_without_flip(m, a, obj) ==
    LET scan == step_scan(m, a, Len(m.variables))
    IN  IF scan.exc # ""
        THEN [exc |-> scan.exc, none |-> FALSE, delta |-> 0, assignment |-> a]
        ELSE IF scan.best_delta.inf \/ scan.best_delta.val >= 0
        THEN [exc |-> "", none |-> TRUE, delta |-> 0, assignment |-> a]
        ELSE [exc |-> "", none |-> FALSE, delta |-> scan.best_delta.val,
              assignment |-> a]

\* step(model, assignment, objective): what it returns (none: it returned None)
\* and the assignment it leaves
step(m, a, obj) ==
    LET scan == step_scan(m, a, Len(m.variables))
    IN  IF scan.exc # ""
        THEN [exc |-> scan.exc, none |-> FALSE, delta |-> 0, assignment |-> a]
        ELSE IF scan.best_delta.inf \/ scan.best_delta.val >= 0
        THEN [exc |-> "", none |-> TRUE, delta |-> 0, assignment |-> a]
        ELSE [exc |-> "", none |-> FALSE, delta |-> scan.best_delta.val,
              assignment |-> flip(a, scan.best_var[1])]

RECURSIVE sum_abs_coeff(_, _)
sum_abs_coeff(terms, k) ==
    IF k = 0 THEN 0 ELSE sum_abs_coeff(terms, k - 1) + Abs(terms[k].coeff)

RECURSIVE sum_coeff(_, _)
sum_coeff(terms, k) ==
    IF k = 0 THEN 0 ELSE sum_coeff(terms, k - 1) + terms[k].coeff

\* lower_bound without abs()
lower_bound_signed(d) ==
    - sum_coeff(d.linear_terms, Len(d.linear_terms))
    - sum_coeff(d.quadratic_terms, Len(d.quadratic_terms))

\* lower_bound of main, from the terms of the document
lower_bound(d) ==
    - sum_abs_coeff(d.linear_terms, Len(d.linear_terms))
    - sum_abs_coeff(d.quadratic_terms, Len(d.quadratic_terms))

NoResult == [exc |-> "", none |-> FALSE, delta |-> 0, assignment |-> <<>>]
NoReport == [iterations |-> 0, restarts |-> 0, objective |-> Inf, lower_bound |-> 0]

\* a domain check that lets every document through
any_domain(d) == TRUE

\* the test of main on data['variable_domain'], true when main goes on
boolean_domain(d) == d.variable_domain = "boolean"

\* main up to the loop: the domain check, load_model, the first assignment
ils_main_setup ==
    /\ pc = "start"
    /\ IF ~boolean_domain(data)
       THEN /\ pc' = "error"
            /\ error' = "Exception"
            /\ UNCHANGED ils_vars
       ELSE IF Len(data.variable_ids) = 0
       THEN \* max() of an empty sequence
            /\ pc' = "error"
            /\ error' = "ValueError"
            /\ UNCHANGED ils_vars
       ELSE LET m == load_model(data)
            IN  \E a \in make_restart_assignment(m, args.initial_assignment) :
                  /\ model' = m
                  /\ assignment' = a
                  /\ objective' = evaluate(m, a)
                  /\ iterations' = 1
                  /\ restarts' = 0
                  /\ best_objective' = Inf
                  /\ clock' = 0
                  /\ end_time' = args.runtime_limit
                  /\ held_min' = evaluate(m, a)
                  /\ steps_none' = 0
                  /\ steps_moved' = 0
                  /\ descent_moves' = 0
                  /\ pc' = "loop"
                  /\ UNCHANGED <<error, result, report>>
    /\ UNCHANGED <<data, args, cmip_vars>>

\* the loop test passes and main calls step
ils_main_step ==
    /\ pc = "loop"
    /\ clock < end_time
    /\ LET r == step(model, assignment, objective)
       IN  IF r.exc # ""
           THEN /\ pc' = "error"
                /\ error' = r.exc
                /\ UNCHANGED ils_vars
           ELSE /\ result' = r
                /\ assignment' = r.assignment
                /\ held_min' = Min(held_min, evaluate(model, r.assignment))
                /\ steps_none' = IF r.none THEN steps_none + 1 ELSE steps_none
                /\ steps_moved' = IF r.none THEN steps_moved ELSE steps_moved + 1
                /\ pc' = "stepped"
                /\ UNCHANGED <<error, model, objective, iterations, restarts,
                               best_objective, clock, end_time, descent_moves,
                               report>>
    /\ UNCHANGED <<data, args, cmip_vars>>

\* the rest of the loop body: restart or move downward, then the best objective
ils_main_update ==
    /\ pc = "stepped"
    /\ \E a \in (IF result.none
                  THEN make_restart_assignment(model, args.initial_assignment)
                  ELSE {assignment}) :
         LET obj == IF result.none THEN evaluate(model, a)
                    ELSE objective + result.delta
         IN  /\ assignment' = a
             /\ objective' = obj
             /\ restarts' = IF result.none THEN restarts + 1 ELSE restarts
             /\ iterations' = IF result.none THEN iterations ELSE iterations + 1
             /\ best_objective' = IF LtFloat(obj, best_objective)
                                  THEN Fin(obj) ELSE best_objective
             /\ held_min' = Min(held_min, evaluate(model, a))
    /\ descent_moves' = IF result.none THEN 0 ELSE descent_moves + 1
    /\ clock' = clock + 1
    /\ pc' = "loop"
    /\ UNCHANGED <<data, args, error, model, end_time, result, steps_none,
                   steps_moved, report, cmip_vars>>

\* the loop test fails: main computes and prints the result
ils_main_finish ==
    /\ pc = "loop"
    /\ ~(clock < end_time)
    /\ report' = [iterations |-> iterations,
                  restarts |-> restarts,
                  objective |-> best_objective,
                  lower_bound |-> lower_bound(data)]
    /\ pc' = "done"
    /\ UNCHANGED <<data, args, error, model, assignment, objective, iterations,
                   restarts, best_objective, clock, end_time, result, held_min,
                   steps_none, steps_moved, descent_moves, cmip_vars>>

----------------------------------------------------------------------------
(* src/cmip_gurobi.py *)

\* the elements of a set of integers in ascending order: the order in which
\* CPython iterates a set of small non-negative ints
RECURSIVE SortedSeq(_)
SortedSeq(S) ==
    IF S = {} THEN <<>>
    ELSE LET lo == CHOOSE x \in S : \A y \in S : x <= y
         IN  <<lo>> \o SortedSeq(S \ {lo})

\* del d[k]
DictDel(d, k) == SelectSeq(d, LAMBDA e : e[1] # k)

\* find that returns the parent of a instead of following the parents to the root
find_parent_only(parent, a) == [parent |-> parent, root |-> parent[a]]

\* UnionFind.find: path halving; the parent list it leaves and the root
RECURSIVE find(_, _)
find(parent, a) ==
    IF a = parent[a] THEN [parent |-> parent, root |-> a]
    ELSE LET halved == [parent EXCEPT ![a] = parent[parent[a]]]
         IN  find(halved, halved[a])

\* union that links a to b without looking up their roots
union_without_find(parent, a, b) == [parent EXCEPT ![a] = b]

\* union that writes self._parent[a] = a
union_to_itself(parent, a, b) ==
    LET fa == find(parent, a)
        fb == find(fa.parent, b)
    IN  [fb.parent EXCEPT ![fa.root] = fa.root]

\* UnionFind.union: the parent list it leaves
union(parent, a, b) ==
    LET fa == find(parent, a)
        fb == find(fa.parent, b)
    IN  [fb.parent EXCEPT ![fa.root] = fb.root]

ordered(i, j) == IF i < j THEN <<i, j>> ELSE <<j, i>>

\* adjacent after the first k keys of quadratic (setdefault, add)
RECURSIVE ising_adjacent(_, _)
ising_adjacent(quadratic, k) ==
    IF k = 0 THEN <<>>
    ELSE LET adj == ising_adjacent(quadratic, k - 1)
             i == quadratic[k][1][1]
             j == quadratic[k][1][2]
             a1 == IF i \in DOMAIN adj THEN [adj EXCEPT ![i] = @ \cup {j}]
                   ELSE adj @@ (i :> {j})
         IN  IF j \in DOMAIN a1 THEN [a1 EXCEPT ![j] = @ \cup {i}]
             ELSE a1 @@ (j :> {i})

\* Ising.__init__, for a spin document
Ising(d) ==
    LET quadratic == quadratic_dict(d.quadratic_terms, Len(d.quadratic_terms))
    IN  [variables |-> {d.variable_ids[k] : k \in 1..Len(d.variable_ids)},
         linear |-> linear_dict(d.linear_terms, Len(d.linear_terms)),
         quadratic |-> quadratic,
         adjacent |-> ising_adjacent(quadratic, Len(quadratic)),
         scale |-> d.scale,
         offset |-> d.offset]

NoIsing == [variables |-> {}, linear |-> <<>>, quadratic |-> <<>>,
            adjacent |-> <<>>, scale |-> 0, offset |-> 0]

\* the for loop of merge over the first k neighbours vs of var2; st holds
\* quadratic and adjacent, and exc once a lookup has failed
RECURSIVE merge_neighbours(_, _, _, _, _)
merge_neighbours(st, var1, var2, vs, k) ==
    IF k = 0 THEN st
    ELSE LET before == merge_neighbours(st, var1, var2, vs, k - 1)
             v == vs[k]
             q == before.quadratic
             adj == before.adjacent
         IN  IF before.exc # "" THEN before
             ELSE IF v \notin DOMAIN adj \/ var2 \notin adj[v]
                     \/ ~DictHas(q, ordered(var2, v))
             THEN [before EXCEPT !.exc = "KeyError"]
             ELSE [exc |-> "",
                   adjacent |-> [adj EXCEPT ![v] = (@ \ {var2}) \cup {var1}],
                   quadratic |->
                       DictDel(DictSet(q, ordered(var1, v),
                                       DictGet(q, ordered(var1, v), 0)
                                       + DictGet(q, ordered(var2, v), 0)),
                               ordered(v, var2))]

\* Ising.merge(var1, var2): the object it leaves, or the KeyError it raises
merge(s, var1, var2) ==
    IF ~DictHas(s.linear, var1) \/ ~DictHas(s.linear, var2)
       \/ var2 \notin DOMAIN s.adjacent
    THEN [exc |-> "KeyError", ising |-> s]
    ELSE
    LET linear == DictDel(DictSet(s.linear, var1, DictGet(s.linear, var1, 0)
                                                  + DictGet(s.linear, var2, 0)),
                          var2)
        cross == DictHas(s.quadratic, ordered(var1, var2))
        offset == IF cross
                  THEN s.offset + DictGet(s.quadratic, ordered(var1, var2), 0)
                  ELSE s.offset
        quadratic == IF cross THEN DictDel(s.quadratic, ordered(var1, var2))
                     ELSE s.quadratic
        adjacent == [s.adjacent EXCEPT ![var2] = @ \ {var1}]
        vs == SortedSeq(adjacent[var2])
        st == merge_neighbours([exc |-> "", quadratic |-> quadratic,
                                adjacent |-> adjacent], var1, var2, vs, Len(vs))
    IN  IF st.exc # "" THEN [exc |-> st.exc, ising |-> s]
        ELSE IF var1 \notin DOMAIN st.adjacent \/ var2 \notin s.variables
        THEN [exc |-> "KeyError", ising |-> s]
        ELSE [exc |-> "",
              ising |-> [variables |-> s.variables \ {var2},
                         linear |-> linear,
                         quadratic |-> st.quadratic,
                         adjacent |-> [x \in DOMAIN st.adjacent \ {var2} |->
                                          IF x = var1
                                          THEN st.adjacent[var1] \cup st.adjacent[var2]
                                          ELSE st.adjacent[x]],
                         scale |-> s.scale,
                         offset |-> offset]]

\* the first loop of to_boolean_domain, over the first k items of linear
RECURSIVE boolean_linear(_, _)
boolean_linear(linear, k) ==
    IF k = 0 THEN [linear |-> <<>>, offset |-> 0]
    ELSE LET before == boolean_linear(linear, k - 1)
         IN  [linear |-> DictSet(before.linear, linear[k][1], 2 * linear[k][2]),
              offset |-> before.offset - linear[k][2]]

\* the second loop of to_boolean_domain, over the first k items of quadratic
RECURSIVE boolean_quadratic(_, _, _)
boolean_quadratic(start, quadratic, k) ==
    IF k = 0 THEN start
    ELSE LET before == boolean_quadratic(start, quadratic, k - 1)
             i == quadratic[k][1][1]
             j == quadratic[k][1][2]
             coeff == quadratic[k][2]
             q0 == IF ~DictHas(before.quadratic, <<i, j>>)
                   THEN DictSet(before.quadratic, <<i, j>>, 0)
                   ELSE before.quadratic
             l0 == IF ~DictHas(before.linear, i)
                   THEN DictSet(DictSet(before.linear, i, 0), j, 0)
                   ELSE before.linear
             l1 == DictSet(l0, i, DictGet(l0, i, 0) - 2 * coeff)
         IN  [linear |-> DictSet(l1, j, DictGet(l1, j, 0) - 2 * coeff),
              quadratic |-> DictSet(q0, <<i, j>>, DictGet(q0, <<i, j>>, 0) + 4 * coeff),
              offset |-> before.offset + coeff]

\* Ising.to_boolean_domain
to_boolean_domain(s) ==
    LET lin == boolean_linear(s.linear, Len(s.linear))
        all == boolean_quadratic([linear |-> lin.linear, quadratic |-> <<>>,
                                  offset |-> s.offset + lin.offset],
                                 s.quadratic, Len(s.quadratic))
    IN  [variables |-> s.variables, linear |-> all.linear,
         quadratic |-> all.quadratic, adjacent |-> <<>>,
         scale |-> s.scale, offset |-> all.offset]

\* the threshold test on the magnitude of the coupling, whatever its sign
is_chain_abs(coeff, scale, chain_strength) == Abs(coeff * scale) >= chain_strength

\* the objective main hands to the solver: sum of coeff * x[i] over linear plus
\* sum of coeff * x[i] * x[j] over quadratic
objective_of(linear, quadratic, x) ==
    evaluate_linear(linear, x, Len(linear))
    + evaluate_quadratic(quadratic, x, Len(quadratic))

\* coeff * ising.scale <= -args.chain_strength
is_chain(coeff, scale, chain_strength) == coeff * scale <= - chain_strength

\* the body of the merge loops of main: merge unless var is the root itself
merge_member(s, group, var) ==
    IF group # var THEN merge(s, group, var) ELSE [exc |-> "", ising |-> s]

\* the (group, var) pairs the merge loops of main visit, in order
RECURSIVE merge_passes(_, _)
merge_passes(gs, k) ==
    IF k = 0 THEN <<>>
    ELSE merge_passes(gs, k - 1)
         \o [m \in 1..Len(gs[k][2]) |-> <<gs[k][1], gs[k][2][m]>>]

\* where main goes after Ising and UnionFind are built
AfterConstruct(s) == IF Len(s.quadratic) = 0 THEN "group" ELSE "union"

\* main: Ising(...) and UnionFind(max(ising.variables) + 1)
cmip_main_construct ==
    /\ pc = "start"
    /\ IF data.variable_domain # "spin"
       THEN /\ pc' = "error"
            /\ error' = "AssertionError"
            /\ UNCHANGED cmip_vars
       ELSE IF Len(data.variable_ids) = 0
       THEN \* max() of an empty set
            /\ pc' = "error"
            /\ error' = "ValueError"
            /\ ising' = Ising(data)
            /\ UNCHANGED <<uf, groups, group_of_var, cursor, converted, round, first>>
       ELSE /\ ising' = Ising(data)
            /\ uf' = [a \in 0..MaxOf(data.variable_ids) |-> a]
            /\ cursor' = 0
            /\ pc' = AfterConstruct(Ising(data))
            /\ UNCHANGED <<error, groups, group_of_var, converted, round, first>>
    /\ UNCHANGED <<data, args, ils_vars>>

\* one pass of the loop over ising.quadratic.items()
cmip_main_union ==
    /\ pc = "union"
    /\ LET item == ising.quadratic[cursor + 1]
       IN  uf' = IF is_chain(item[2], ising.scale, args.chain_strength)
                 THEN union(uf, item[1][1], item[1][2])
                 ELSE uf
    /\ cursor' = IF cursor + 1 = Len(ising.quadratic) THEN 0 ELSE cursor + 1
    /\ pc' = IF cursor + 1 = Len(ising.quadratic) THEN "group" ELSE "union"
    /\ UNCHANGED <<data, args, error, ils_vars, ising, groups, group_of_var,
                   converted, round, first>>

\* one pass of the loop over ising.variables that fills groups and group_of_var
cmip_main_group ==
    /\ pc = "group"
    /\ LET variables == SortedSeq(ising.variables)
           var == variables[cursor + 1]
           found == find(uf, var)
           group == found.root
           gs == IF ~DictHas(groups, group) THEN DictSet(groups, group, <<>>)
                 ELSE groups
       IN  /\ uf' = found.parent
           /\ groups' = DictSet(gs, group, Append(DictGet(gs, group, <<>>), var))
           /\ group_of_var' = IF var \in DOMAIN group_of_var
                              THEN [group_of_var EXCEPT ![var] = group]
                              ELSE group_of_var @@ (var :> group)
           /\ cursor' = IF cursor + 1 = Len(variables) THEN 0 ELSE cursor + 1
           /\ pc' = IF cursor + 1 = Len(variables) THEN "merge" ELSE "group"
    /\ UNCHANGED <<data, args, error, ils_vars, ising, converted, round, first>>

\* one pass of the inner loop over the members of the groups
cmip_main_merge ==
    /\ pc = "merge"
    /\ LET passes == merge_passes(groups, Len(groups))
           group == passes[cursor + 1][1]
           var == passes[cursor + 1][2]
           merged == merge_member(ising, group, var)
       IN  IF merged.exc # ""
           THEN /\ pc' = "error"
                /\ error' = merged.exc
                /\ UNCHANGED <<ising, cursor>>
           ELSE /\ ising' = merged.ising
                /\ cursor' = IF cursor + 1 = Len(passes) THEN 0 ELSE cursor + 1
                /\ pc' = IF cursor + 1 = Len(passes) THEN "contracted" ELSE "merge"
                /\ UNCHANGED error
    /\ UNCHANGED <<data, args, ils_vars, uf, groups, group_of_var, converted,
                   round, first>>

\* main after the contraction: to_boolean_domain
cmip_main_convert ==
    /\ pc = "contracted"
    /\ converted' = to_boolean_domain(ising)
    /\ pc' = "done"
    /\ UNCHANGED <<data, args, error, ils_vars, ising, uf, groups, group_of_var,
                   cursor, round, first>>

\* the contraction of main (lines 98-115) run once more on its own result
cmip_contract_again ==
    /\ pc = "contracted"
    /\ round = 1
    /\ round' = 2
    /\ first' = ising
    /\ uf' = [a \in 0..MaxOf(SortedSeq(ising.variables)) |-> a]
    /\ groups' = <<>>
    /\ group_of_var' = <<>>
    /\ cursor' = 0
    /\ pc' = AfterConstruct(ising)
    /\ UNCHANGED <<data, args, error, ils_vars, ising, converted>>

----------------------------------------------------------------------------
(* Input documents *)

\* the pairs i < j of 0 .. n-1, and a set of them in lexicographic order
Pairs(n) == {p \in (0..(n - 1)) \X (0..(n - 1)) : p[1] < p[2]}
RECURSIVE SortedPairs(_)
SortedPairs(P) ==
    IF P = {} THEN <<>>
    ELSE LET lo == CHOOSE p \in P : \A q \in P :
                       p[1] < q[1] \/ (p[1] = q[1] /\ p[2] <= q[2])
         IN  <<lo>> \o SortedPairs(P \ {lo})

\* the document with variables 0 .. n-1, linear terms f and quadratic terms g
Document(domain, n, f, g) ==
    LET ids == SortedSeq(DOMAIN f)
        prs == SortedPairs(DOMAIN g)
    IN  [variable_domain |-> domain,
         variable_ids |-> [k \in 1..n |-> k - 1],
         linear_terms |-> [k \in 1..Len(ids) |->
                              [id |-> ids[k], coeff |-> f[ids[k]]]],
         quadratic_terms |-> [k \in 1..Len(prs) |->
                              [id_tail |-> prs[k][1], id_head |-> prs[k][2],
                               coeff |-> g[prs[k]]]],
         scale |-> 1,
         offset |-> 0]

\* the linear terms and the quadratic terms a document over 0 .. n-1 can have
LinearChoices(n, vals) == UNION {[S -> vals] : S \in SUBSET (0..(n - 1))}
QuadraticChoices(n, vals) == UNION {[P -> vals] : P \in SUBSET Pairs(n)}

IlsIdle ==
    /\ model = <<>>
    /\ assignment = <<>>
    /\ objective = 0
    /\ iterations = 0
    /\ restarts = 0
    /\ best_objective = Inf
    /\ clock = 0
    /\ end_time = 0
    /\ result = NoResult
    /\ held_min = 0
    /\ steps_none = 0
    /\ steps_moved = 0
    /\ descent_moves = 0
    /\ report = NoReport

CmipIdle ==
    /\ ising = NoIsing
    /\ uf = <<>>
    /\ groups = <<>>
    /\ group_of_var = <<>>
    /\ cursor = 0
    /\ converted = NoIsing
    /\ round = 1
    /\ first = NoIsing

InitILS ==
    /\ \E n \in 0..MaxBoolVars :
         \E f \in LinearChoices(n, LinVals), g \in QuadraticChoices(n, QuadVals) :
            data = Document("boolean", n, f, g)
    /\ args \in [initial_assignment : {"ran", "ones", "zeros"},
                  runtime_limit : 0..MaxTime]
    /\ pc = "start"
    /\ error = ""
    /\ IlsIdle
    /\ CmipIdle

\* spin documents of cmip_gurobi: what bqpjson.swap_variable_domain hands to Ising
InitCmip ==
    /\ \E n \in 0..MaxSpinVars :
         \E f \in LinearChoices(n, SpinLinVals), g \in QuadraticChoices(n, SpinQuadVals) :
            data = Document("spin", n, f, g)
    /\ args \in [chain_strength : ChainStrengths]
    /\ pc = "start"
    /\ error = ""
    /\ IlsIdle
    /\ CmipIdle

\* the terms that repeat a term of d: a linear id again, a quadratic pair again
\* in the same or in the other tail/head order
RepeatedLinearTerms(d, vals) ==
    {[id |-> d.linear_terms[k].id, coeff |-> c] :
        k \in 1..Len(d.linear_terms), c \in vals}
RepeatedQuadraticTerms(d, vals) ==
    UNION {{[id_tail |-> d.quadratic_terms[k].id_tail,
             id_head |-> d.quadratic_terms[k].id_head, coeff |-> c],
            [id_tail |-> d.quadratic_terms[k].id_head,
             id_head |-> d.quadratic_terms[k].id_tail, coeff |-> c]} :
        k \in 1..Len(d.quadratic_terms), c \in vals}

\* boolean documents in which one linear or one quadratic term comes twice
InitRepeated ==
    /\ \E n \in 1..MaxBoolVars :
         \E f \in LinearChoices(n, LinVals), g \in QuadraticChoices(n, QuadVals) :
            LET d == Document("boolean", n, f, g)
            IN  \/ \E t \in RepeatedLinearTerms(d, LinVals) :
                      data = [d EXCEPT !.linear_terms = Append(@, t)]
                \/ \E t \in RepeatedQuadraticTerms(d, QuadVals) :
                      data = [d EXCEPT !.quadratic_terms = Append(@, t)]
    /\ args \in [initial_assignment : {"ran", "ones", "zeros"},
                  runtime_limit : 0..MaxTime]
    /\ pc = "start"
    /\ error = ""
    /\ IlsIdle
    /\ CmipIdle

\* documents of either domain, handed to either program
InitDomain ==
    /\ \E n \in 1..MaxBoolVars, domain \in {"boolean", "spin"} :
         \E f \in LinearChoices(n, SpinLinVals), g \in QuadraticChoices(n, SpinQuadVals) :
            data = Document(domain, n, f, g)
    /\ args \in [initial_assignment : {"ran", "ones", "zeros"},
                  runtime_limit : {0, 1},
                  chain_strength : ChainStrengths]
    /\ pc = "start"
    /\ error = ""
    /\ IlsIdle
    /\ CmipIdle

\* spin documents with a linear term on every variable
FullLinear(n) == [v \in 0..(n - 1) |-> 1]

InitChains ==
    /\ \E n \in 0..MaxSpinVars :
         \E g \in QuadraticChoices(n, SpinQuadVals) :
            data = Document("spin", n, FullLinear(n), g)
    /\ args \in [chain_strength : ChainStrengths]
    /\ pc = "start"
    /\ error = ""
    /\ IlsIdle
    /\ CmipIdle

\* d with the quadratic terms at the positions R given as (head, tail)
ReversedTerms(d, R) ==
    [d EXCEPT !.quadratic_terms =
        [k \in 1..Len(@) |->
            IF k \in R
            THEN [id_tail |-> @[k].id_head, id_head |-> @[k].id_tail,
                  coeff |-> @[k].coeff]
            ELSE @[k]]]

\* spin documents in which at least one quadratic term has id_tail > id_head
InitReversed ==
    /\ \E n \in 2..MaxSpinVars :
         \E g \in QuadraticChoices(n, SpinQuadVals) :
            \E R \in (SUBSET (1..Cardinality(DOMAIN g))) \ {{}} :
                data = ReversedTerms(Document("spin", n, FullLinear(n), g), R)
    /\ args \in [chain_strength : ChainStrengths]
    /\ pc = "start"
    /\ error = ""
    /\ IlsIdle
    /\ CmipIdle

\* boolean documents run with --initial_assignment ones or zeros, for up to
\* twice the runtime limit of InitILS
InitFixed ==
    /\ \E n \in 0..MaxBoolVars :
         \E f \in LinearChoices(n, LinVals), g \in QuadraticChoices(n, QuadVals) :
            data = Document("boolean", n, f, g)
    /\ args \in [initial_assignment : {"ones", "zeros"},
                  runtime_limit : 0..(2 * MaxTime)]
    /\ pc = "start"
    /\ error = ""
    /\ IlsIdle
    /\ CmipIdle

NextCmip ==
    \/ cmip_main_construct
    \/ cmip_main_union
    \/ cmip_main_group
    \/ cmip_main_merge
    \/ cmip_main_convert

SpecCmip == InitCmip /\ [][NextCmip]_vars

SpecChains == InitChains /\ [][NextCmip]_vars

SpecReversed == InitReversed /\ [][NextCmip]_vars

NextAgain ==
    \/ NextCmip
    \/ cmip_contract_again

SpecAgain == InitCmip /\ [][NextAgain]_vars

NextILS ==
    \/ ils_main_setup
    \/ ils_main_step
    \/ ils_main_update
    \/ ils_main_finish

SpecRepeated == InitRepeated /\ [][NextILS]_vars

\* either main is run on the document
NextDomain ==
    \/ NextILS
    \/ NextCmip

SpecDomain == InitDomain /\ [][NextDomain]_vars

SpecFixed == InitFixed /\ [][NextILS]_vars

SpecILS == InitILS /\ [][NextILS]_vars

----------------------------------------------------------------------------
(* Claims about src/ils_bit.py, checked under SpecILS *)

\* main has built the model
Loaded == pc \in {"loop", "stepped", "done"} \/ (pc = "error" /\ error = "TypeError")

ModelVariables == {model.variables[k] : k \in 1..Len(model.variables)}

\* C1: for every assignment and every variable of the model, also one that is
\* in no quadratic term, flip_delta returns evaluate of the assignment with
\* the variable toggled minus evaluate of the assignment.
C1_FlipDeltaIsObjectiveDifference ==
    Loaded =>
        \A a \in Assignments(model) : \A v \in ModelVariables :
            flip_delta(model, a, v)
              = [exc |-> "", val |-> evaluate(model, flip(a, v)) - evaluate(model, a)]

\* C2: a step() that returns None leaves the assignment as it was, and no
\* single toggle of that assignment decreases evaluate: every flip_delta is >= 0.
C2_NoMoveIsLocalOptimum ==
    [][(pc = "loop" /\ pc' = "stepped" /\ result'.none) =>
         /\ assignment' = assignment
         /\ \A v \in ModelVariables :
               /\ flip_delta(model, assignment', v).exc = ""
               /\ flip_delta(model, assignment', v).val >= 0
               /\ evaluate(model, flip(assignment', v)) >= evaluate(model, assignment')]_vars

C2_Witness ==
    /\ pc = "stepped"
    /\ result.none
    /\ Len(model.variables) = MaxBoolVars
    /\ evaluate(model, assignment) < 0

\* C3: the best objective main reports is the least evaluate() over all the
\* assignments it held: the first one, the one after each flip, each restart's.
C3_ReportedBestIsLeastHeld ==
    (pc = "done" /\ clock > 0) => report.objective = Fin(held_min)

\* C4: no assignment evaluates below -(sum |linear|) - (sum |quadratic|), so
\* the running objective and best_objective never lie below the lower bound
\* main reports.
C4_LowerBoundValid ==
    Loaded =>
        /\ (pc = "loop" /\ clock = 0) =>
              \A a \in Assignments(model) : evaluate(model, a) >= lower_bound(data)
        /\ objective >= lower_bound(data)
        /\ evaluate(model, assignment) >= lower_bound(data)
        /\ best_objective.inf \/ best_objective.val >= lower_bound(data)
        /\ pc = "done" =>
              /\ report.lower_bound = lower_bound(data)
              /\ report.objective.inf \/ report.objective.val >= report.lower_bound

C4_Witness ==
    /\ pc = "done"
    /\ ~report.objective.inf
    /\ report.objective.val = report.lower_bound
    /\ report.lower_bound < 0
    /\ report.restarts > 0

\* the example of the specification: linear {0: -1, 1: -1}, quadratic {(0,1): 2}
ExampleDocument ==
    Document("boolean", 2, [v \in {0, 1} |-> -1], (<<0, 1>> :> 2))

\* C10: on the example started from all ones (objective 0) the first step()
\* flips a variable with delta -1, the second returns None, and the objective
\* at that local optimum is -1.
C10_ExampleScenario ==
    (data = ExampleDocument /\ args.initial_assignment = "ones") =>
        /\ (pc = "loop" /\ clock = 0) =>
              /\ assignment = [v \in {0, 1} |-> 1]
              /\ objective = 0
        /\ (pc = "stepped" /\ clock = 0) =>
              /\ ~result.none
              /\ result.delta = -1
              /\ \E v \in {0, 1} : assignment = flip([w \in {0, 1} |-> 1], v)
        /\ (pc = "loop" /\ clock = 1) => objective = -1
        /\ (pc = "stepped" /\ clock = 1) =>
              /\ result.none
              /\ objective = -1
              /\ evaluate(model, assignment) = -1

C10_Witness ==
    /\ data = ExampleDocument
    /\ args.initial_assignment = "ones"
    /\ pc = "stepped"
    /\ clock = 1
    /\ result.none
    /\ objective = -1

\* C11: on a document with zero variables main ends without an error and
\* reports the best objective 0 and 0 iterations.
C11_EmptyModelReturnsZero ==
    (Len(data.variable_ids) = 0 /\ pc # "start") =>
        /\ pc = "done"
        /\ error = ""
        /\ report.objective = Fin(0)
        /\ report.iterations = 0

\* C12: on a document that repeats a linear id or a quadratic pair main ends
\* in an error before the loop starts, and it builds no model on which
\* flip_delta differs from the difference of evaluate.
C12_RepeatedTermIsFatal ==
    /\ pc \notin {"loop", "stepped", "done"}
    /\ Loaded =>
          \A a \in Assignments(model) : \A v \in ModelVariables :
              flip_delta(model, a, v).exc = "" =>
                  flip_delta(model, a, v).val
                    = evaluate(model, flip(a, v)) - evaluate(model, a)

\* C13: on a document whose domain is not "boolean" the local-search main ends
\* with an exception in its first step, having built no model, generated no
\* assignment, run no step() and printed no result; the construction of Ising
\* fails in the same way on a document whose domain is not "spin".
\* (Checked under SpecDomain, where either main may run: a step that leaves
\* ising alone is a step of the local search, one that leaves model alone is
\* a step of the contraction.)
C13_UnsupportedDomainFailsFast ==
    [][/\ (pc = "start" /\ data.variable_domain # "boolean" /\ ising' = ising) =>
             /\ pc' = "error"
             /\ error' = "Exception"
       /\ data.variable_domain # "boolean" =>
             /\ model' = <<>>
             /\ assignment' = <<>>
             /\ result' = NoResult
             /\ report' = NoReport
             /\ pc' \notin {"loop", "stepped"}
       /\ (pc = "start" /\ data.variable_domain # "spin" /\ model' = model) =>
             /\ pc' = "error"
             /\ error' = "AssertionError"
       /\ data.variable_domain # "spin" =>
             /\ ising' = NoIsing
             /\ uf' = <<>>
             /\ pc' \notin {"union", "group", "merge", "contracted"}]_vars

C13_Witness ==
    /\ pc = "error"
    /\ error = "Exception"
    /\ data.variable_domain = "spin"
    /\ Len(data.quadratic_terms) > 0
    /\ args.runtime_limit > 0

\* C14: at the head of every pass of the main loop, after any moves and
\* restarts, the running objective is evaluate of the current assignment;
\* between a step() that moved and the update it is short of it by exactly
\* the delta that step() returned.
C14_RunningObjectiveIsEvaluate ==
    /\ pc = "loop" => objective = evaluate(model, assignment)
    /\ pc = "stepped" =>
          objective + (IF result.none THEN 0 ELSE result.delta)
            = evaluate(model, assignment)

C14_Witness ==
    /\ pc = "loop"
    /\ restarts >= 1
    /\ iterations >= 2
    /\ ~result.none
    /\ objective < 0
    /\ objective = evaluate(model, assignment)

\* the position in a non-empty sequence of numbers of the first least one
FirstMinimum(ds) ==
    CHOOSE k \in 1..Len(ds) :
        /\ \A j \in 1..Len(ds) : ds[k] <= ds[j]
        /\ \A j \in 1..(k - 1) : ds[j] > ds[k]

\* C15: a step() that returns has looked at the flip_delta of every variable;
\* with v the first variable of model.variables among those of least
\* flip_delta, it toggles v and nothing else and returns that delta when the
\* delta is < 0, and otherwise returns None and toggles nothing.
C15_StepFlipsFirstMinimum ==
    [][(pc = "loop" /\ pc' = "stepped") =>
         \A ds \in {[k \in 1..Len(model.variables) |->
                        flip_delta(model, assignment, model.variables[k]).val]} :
         \A first_min \in {FirstMinimum(ds)} :
             IF ds[first_min] < 0
             THEN /\ ~result'.none
                  /\ result'.delta = ds[first_min]
                  /\ assignment' = [assignment EXCEPT
                                       ![model.variables[first_min]] = 1 - @]
             ELSE /\ result'.none
                  /\ assignment' = assignment]_vars

\* on the example started from all ones both variables have delta -1 and
\* step() has toggled variable 0
C15_Witness ==
    /\ data = ExampleDocument
    /\ args.initial_assignment = "ones"
    /\ pc = "stepped"
    /\ clock = 0
    /\ flip_delta(model, [w \in {0, 1} |-> 1], 0).val = -1
    /\ flip_delta(model, [w \in {0, 1} |-> 1], 1).val = -1
    /\ assignment = (0 :> 0 @@ 1 :> 1)
    /\ result.delta = -1

\* C16: the main loop is left only by its time check: main calls step() once
\* more exactly when the elapsed time is below the runtime limit, whether or
\* not the last step() found a move, and otherwise goes on to print the
\* result; nothing else ends the loop.
C16_LoopEndsOnlyByTimeCheck ==
    [][/\ (pc = "loop" /\ clock < end_time) => pc' = "stepped"
       /\ (pc = "loop" /\ ~(clock < end_time)) => pc' = "done"
       /\ pc = "stepped" => pc' = "loop"]_vars

\* C17: every pass of the loop adds one to exactly one of restarts and
\* iterations; a pass whose step() returned None takes a new assignment from
\* the selected generator and sets objective to its evaluate; and at the end
\* the restart count main reports is the number of step() calls that returned
\* None and the iteration count the number that returned a delta.
C17_CountersCountSteps ==
    [][/\ pc = "stepped" =>
             /\ (restarts' = restarts + 1 /\ iterations' = iterations)
                  \/ (restarts' = restarts /\ iterations' = iterations + 1)
             /\ result.none =>
                   /\ restarts' = restarts + 1
                   /\ assignment' \in make_restart_assignment(model, args.initial_assignment)
                   /\ objective' = evaluate(model, assignment')
       /\ pc' = "done" =>
             /\ report'.restarts = steps_none
             /\ report'.iterations = steps_moved]_vars

\* the assignments that successive calls of step() hold, starting from a, up
\* to the first call that returns None (or raises) and at most k moves
RECURSIVE DescentFrom(_, _, _)
DescentFrom(m, a, k) ==
    IF k = 0 THEN <<a>>
    ELSE LET r == step(m, a, evaluate(m, a))
         IN  IF r.exc # "" \/ r.none THEN <<a>>
             ELSE <<a>> \o DescentFrom(m, r.assignment, k - 1)

\* C21: every step() that moves lowers the running objective strictly; so
\* from whatever assignment a descent starts, evaluate falls strictly from
\* each assignment it holds to the next, it holds no assignment twice, and
\* step() returns None after at most 2^n moves, n the number of variables.
C21_DescentStrictlyDecreases ==
    /\ (pc = "stepped" /\ ~result.none) =>
          /\ result.delta < 0
          /\ evaluate(model, assignment) < objective
    /\ (pc = "loop" /\ clock = 0) =>
          \A a \in Assignments(model) :
              \A d \in {DescentFrom(model, a, 2 ^ Len(model.variables) + 1)} :
                  /\ Len(d) - 1 <= 2 ^ Len(model.variables)
                  /\ \A i \in 1..(Len(d) - 1) :
                        evaluate(model, d[i + 1]) < evaluate(model, d[i])
                  /\ \A i, j \in 1..Len(d) : i # j => d[i] # d[j]

\* a run made two moves in one descent and then found no move
C21_Witness ==
    /\ pc = "stepped"
    /\ result.none
    /\ descent_moves = 2
    /\ Len(DescentFrom(model, [v \in 0..MaxOf(model.variables) |-> 0],
                        2 ^ Len(model.variables) + 1)) = 3

\* the assignments of the first descent of a run with the all-ones or the
\* all-zeros generator: from the generator's assignment to the local optimum
FirstDescent ==
    DescentFrom(model,
                CHOOSE a \in make_restart_assignment(model, args.initial_assignment) : TRUE,
                2 ^ Len(model.variables) + 1)

\* C22: with the all-ones or the all-zeros generator every descent of a run
\* is the first descent again: after any number of restarts the assignment
\* and the objective at the head of the loop are those the first descent had
\* after the same number of moves, step() finds no move at the same point,
\* and from the pass of the first "no move" on best_objective stays the
\* objective of the local optimum the first descent ended in.
C22_RestartsRepeatFirstDescent ==
    (pc \in {"loop", "stepped", "done"}) =>
        \A d \in {FirstDescent} :
            /\ pc \in {"loop", "done"} =>
                  /\ descent_moves + 1 <= Len(d)
                  /\ \A v \in DOMAIN assignment :
                        assignment[v] = d[descent_moves + 1][v]
                  /\ objective = evaluate(model, d[descent_moves + 1])
                  /\ clock = restarts * Len(d) + descent_moves
            /\ pc = "stepped" => (result.none <=> descent_moves + 1 = Len(d))
            /\ (pc = "stepped" /\ ~result.none) =>
                  \A v \in DOMAIN assignment :
                      assignment[v] = d[descent_moves + 2][v]
            /\ restarts >= 1 =>
                  best_objective = Fin(evaluate(model, d[Len(d)]))

\* a run that restarted twice and is on the second move of its third descent
C22_Witness ==
    /\ pc = "loop"
    /\ restarts >= 2
    /\ descent_moves >= 1
    /\ Len(FirstDescent) >= 2
    /\ best_objective = Fin(evaluate(model, FirstDescent[Len(FirstDescent)]))

----------------------------------------------------------------------------
(* Claims about src/cmip_gurobi.py, checked under SpecCmip and SpecAgain *)

\* the Ising object main started from, and its variables
Original == Ising(data)
OriginalVariables == {data.variable_ids[k] : k \in 1..Len(data.variable_ids)}

\* the sum of the quadratic coefficients of s on the pairs that hold v
IncidentSum(s, v) ==
    evaluate_quadratic(s.quadratic,
                       [w \in s.variables |-> 1],
                       Len(s.quadratic))
    - evaluate_quadratic(s.quadratic,
                         [w \in s.variables |-> IF w = v THEN 0 ELSE 1],
                         Len(s.quadratic))

\* C5: what to_boolean_domain returns has, at x = (s + 1) / 2, the raw
\* objective plus offset of the spin model at s, for every spin assignment s,
\* also when one end of a quadratic term has a linear term and the other has
\* none; each boolean linear coefficient is 2 * L[v] - 2 * (sum of the
\* quadratic coefficients incident to v).
C5_ConversionPreservesObjective ==
    pc = "done" =>
        /\ \A s \in [ising.variables -> {-1, 1}] :
              objective_of(ising.linear, ising.quadratic, s) + ising.offset
                = objective_of(converted.linear, converted.quadratic,
                               [v \in ising.variables |-> (s[v] + 1) \div 2])
                  + converted.offset
        /\ \A v \in ising.variables :
              DictGet(converted.linear, v, 0)
                = 2 * DictGet(ising.linear, v, 0) - 2 * IncidentSum(ising, v)

\* the spin assignments of the original variables that give every variable
\* the value of its representative
GroupAssignments ==
    {s \in [OriginalVariables -> {-1, 1}] :
        \A v \in OriginalVariables : s[v] = s[group_of_var[v]]}

\* C6: the contraction completes for every spin model, a variable without a
\* linear term counting as coefficient 0, and every assignment that is
\* constant on each group has the same raw objective plus offset on the
\* original and on the contracted model.
C6_ContractionPreservesObjective ==
    /\ ~(pc = "error" /\ error = "KeyError")
    /\ pc \in {"contracted", "done"} =>
          \A s \in GroupAssignments :
              objective_of(Original.linear, Original.quadratic, s) + Original.offset
                = objective_of(ising.linear, ising.quadratic, s) + ising.offset

\* variables, linear, quadratic and offset of two Ising objects agree
SameModel(s, t) ==
    /\ s.variables = t.variables
    /\ s.linear = t.linear
    /\ s.quadratic = t.quadratic
    /\ s.offset = t.offset

\* some quadratic coefficient of s reaches the chain strength
ChainLeft(s) ==
    \E k \in 1..Len(s.quadratic) :
        s.quadratic[k][2] * s.scale <= - args.chain_strength

\* C7 as stated: a second contraction with the same chain_strength leaves
\* variables, linear, quadratic and offset as the first contraction left them.
C7_ContractionIdempotent ==
    (round = 2 /\ pc = "contracted") => SameModel(ising, first)

\* C7 amended: when no quadratic coefficient of the first result satisfies
\* c * scale <= -chain_strength, a second contraction cannot fail, maps every
\* variable to itself and leaves variables, linear, quadratic and offset as
\* they were.
C7_SecondContractionWithoutChainChangesNothing ==
    (round = 2 /\ ~ChainLeft(first)) =>
        /\ pc # "error"
        /\ SameModel(ising, first)
        /\ pc = "contracted" => \A v \in first.variables : group_of_var[v] = v

C7_Witness ==
    /\ round = 2
    /\ pc = "contracted"
    /\ ~ChainLeft(first)
    /\ SameModel(ising, first)
    /\ Cardinality(first.variables) < Len(data.variable_ids)
    /\ Len(first.quadratic) > 0

\* some quadratic term of the document reaches the chain strength
ChainInDocument ==
    \E k \in 1..Len(data.quadratic_terms) :
        data.quadratic_terms[k].coeff * data.scale <= - args.chain_strength

\* C8 as stated: the contracted model has strictly fewer variables than the
\* model given, whatever the model and the chain_strength.
C8_StrictlyFewerVariables ==
    pc = "contracted" => Cardinality(ising.variables) < Len(data.variable_ids)

\* C8 amended: the contracted model keeps a subset of the variables, and
\* strictly fewer exactly when some quadratic coefficient c of the model given
\* satisfies c * scale <= -chain_strength.
C8_FewerVariablesIffChain ==
    pc \in {"contracted", "done"} =>
        /\ ising.variables \subseteq OriginalVariables
        /\ Cardinality(ising.variables) < Len(data.variable_ids) <=> ChainInDocument

C8_Witness ==
    /\ pc = "contracted"
    /\ ChainInDocument
    /\ Cardinality(ising.variables) < Len(data.variable_ids)
    /\ Cardinality(ising.variables) > 1

\* the members of the group of root r
Members(r) == LET ms == DictGet(groups, r, <<>>) IN {ms[k] : k \in 1..Len(ms)}

\* C9: after the grouping group_of_var is defined on every original variable
\* and maps it to a representative that is in the same group and maps to
\* itself; the variables of the contracted model are the representatives.
C9_GroupOfVarMapsToRepresentatives ==
    /\ (pc \in {"merge", "contracted", "done"} \/ (pc = "error" /\ error = "KeyError")) =>
          /\ DOMAIN group_of_var = OriginalVariables
          /\ \A v \in OriginalVariables :
                /\ group_of_var[v] \in OriginalVariables
                /\ group_of_var[group_of_var[v]] = group_of_var[v]
                /\ v \in Members(group_of_var[v])
                /\ group_of_var[v] \in Members(group_of_var[v])
    /\ pc \in {"contracted", "done"} =>
          ising.variables = {group_of_var[v] : v \in OriginalVariables}

C9_Witness ==
    /\ pc = "contracted"
    /\ Cardinality(ising.variables) = 2
    /\ \E v \in OriginalVariables : group_of_var[v] # v

\* the <<tail, head>> of those of the first k quadratic terms of the document
\* whose coefficient c has c * scale <= -chain_strength
ChainEdges(k) ==
    {<<data.quadratic_terms[n].id_tail, data.quadratic_terms[n].id_head>> :
        n \in {m \in 1..k : data.quadratic_terms[m].coeff * data.scale
                                <= - args.chain_strength}}

\* the variables that a path of at most len edges of E joins to one of S
RECURSIVE ChainReach(_, _, _)
ChainReach(S, E, len) ==
    IF len = 0 THEN S
    ELSE ChainReach(S \cup {e[2] : e \in {x \in E : x[1] \in S}}
                      \cup {e[1] : e \in {x \in E : x[2] \in S}},
                    E, len - 1)

\* the quadratic terms the union loop of main has gone through
TermsDone == IF pc = "union" THEN cursor ELSE Len(data.quadratic_terms)

SameRoot(parent, u, v) == find(parent, u).root = find(parent, v).root

\* C18: during and after the union loop two variables have the same find()
\* root exactly when a path of quadratic terms already gone through, each with
\* c * scale <= -chain_strength on the coefficient of the document, joins
\* them; and the parent list that a call of find leaves gives every pair the
\* same answer as before the call.
C18_RootsAreChainComponents ==
    (pc \in {"union", "group", "merge", "contracted", "done"}
       \/ (pc = "error" /\ error = "KeyError")) =>
        \A root \in {[u \in OriginalVariables |-> find(uf, u).root]} :
        \A E \in {ChainEdges(TermsDone)} :
            /\ \A u \in OriginalVariables :
                  {v \in OriginalVariables : root[v] = root[u]}
                    = ChainReach({u}, E, Len(data.variable_ids) - 1)
            /\ \A a \in OriginalVariables :
                  \A halved \in {find(uf, a).parent} :
                      \A u \in OriginalVariables : find(halved, u).root = root[u]

\* three variables in one component, two of them joined only through the third
C18_Witness ==
    /\ pc = "merge"
    /\ \E u, v \in OriginalVariables :
          /\ u # v
          /\ <<u, v>> \notin ChainEdges(Len(data.quadratic_terms))
          /\ <<v, u>> \notin ChainEdges(Len(data.quadratic_terms))
          /\ SameRoot(uf, u, v)


\* adjacent of s agrees with quadratic of s, and neither mentions a variable
\* that is no longer in variables
AdjacencyConsistent(s) ==
    /\ DOMAIN s.adjacent \subseteq s.variables
    /\ \A n \in DOMAIN s.adjacent : s.adjacent[n] \subseteq s.variables
    /\ \A k \in 1..Len(s.quadratic) :
          {s.quadratic[k][1][1], s.quadratic[k][1][2]} \subseteq s.variables
    /\ \A n, m \in s.variables :
          (n \in DOMAIN s.adjacent /\ m \in s.adjacent[n])
            <=> (DictHas(s.quadratic, <<n, m>>) \/ DictHas(s.quadratic, <<m, n>>))

\* C19: after Ising.__init__ and after every merge(r, v) of the contraction,
\* m is in adjacent[n] exactly when the pair {n, m} is a key of quadratic, and
\* no removed variable is a key or a member of adjacent or an end of a key of
\* quadratic.
C19_AdjacencyMatchesQuadratic ==
    pc \in {"union", "group", "merge", "contracted", "done"} =>
        AdjacencyConsistent(ising)


\* C20: on a document that gives some quadratic term as (tail, head) with
\* tail > head the contraction completes, no key of quadratic of the
\* contracted model holds a removed variable, no unordered pair is a key
\* twice, and every assignment that is constant on each group has the same
\* raw objective plus offset on the original and on the contracted model, as
\* it has when every term is given with tail < head.
C20_TermOrderDoesNotMatter ==
    /\ ~(pc = "error" /\ error = "KeyError")
    /\ pc \in {"contracted", "done"} =>
          /\ \A k \in 1..Len(ising.quadratic) :
                /\ {ising.quadratic[k][1][1], ising.quadratic[k][1][2]}
                     \subseteq ising.variables
                /\ ~DictHas(ising.quadratic,
                            <<ising.quadratic[k][1][2], ising.quadratic[k][1][1]>>)
          /\ \A s \in GroupAssignments :
                objective_of(Original.linear, Original.quadratic, s) + Original.offset
                  = objective_of(ising.linear, ising.quadratic, s) + ising.offset


=============================================================================
